---- MODULE Spec2Model ----
(***************************************************************************)
(* Model of the oxbow command line (cli/src/main.rs): the resolution of    *)
(* the table location, the assembly of the Azure storage options and the   *)
(* run of main around them.                                                *)
(*                                                                         *)
(* Strings are sequences of bytes.  A Rust String holds valid UTF-8 only;  *)
(* a value of the process environment is an OsString and may hold any      *)
(* bytes.  An Option, a Result and a plain String are records with the     *)
(* fields kind and val, so that Some("a") and "a" are different values.    *)
(***************************************************************************)
EXTENDS Integers, Sequences, FiniteSets, TLC

\* Longest table location / TABLE_LOCATION value that is enumerated.
MaxLen == 2
\* Longest tenant / clientid / clientsecret value that is enumerated.
MaxCredLen == 1

\* 'a', and the two bytes of U+00E9: each of the two is invalid on its own.
Alphabet == {97, 195, 169}

BytesUpTo(n) == UNION {[1..k -> Alphabet] : k \in 0..n}

\* str::from_utf8, as std::env::var applies it: one-byte and two-byte
\* sequences (every byte of Alphabet that is >= 128 starts or continues a
\* two-byte sequence).
RECURSIVE IsUtf8(_)
IsUtf8(s) ==
    IF s = <<>> THEN TRUE
    ELSE IF Head(s) < 128 THEN IsUtf8(Tail(s))
    ELSE IF Head(s) \in 194..223 /\ Len(s) >= 2 /\ s[2] \in 128..191
         THEN IsUtf8(SubSeq(s, 3, Len(s)))
    ELSE FALSE

StringsUpTo(n) == {s \in BytesUpTo(n) : IsUtf8(s)}

None == [kind |-> "None", val |-> <<>>]
Some(s) == [kind |-> "Some", val |-> s]
Str(s) == [kind |-> "String", val |-> s]
Ok(s) == [kind |-> "Ok", val |-> s]
Err(e) == [kind |-> e, val |-> <<>>]
Bool(b) == [kind |-> IF b THEN "true" ELSE "false", val |-> <<>>]
Uncalled == [kind |-> "Uncalled", val |-> <<>>]

OptionString(n) == {None} \cup {Some(s) : s \in StringsUpTo(n)}
OptionOsString(n) == {None} \cup {Some(s) : s \in BytesUpTo(n)}

\* struct Flags
Flags ==
    [help : BOOLEAN,
     table : OptionString(MaxLen),
     tenant : OptionString(MaxCredLen),
     clientid : OptionString(MaxCredLen),
     clientsecret : OptionString(MaxCredLen)]

\* The flags variable before the arguments are parsed.
NoFlags ==
    [help |-> FALSE, table |-> None, tenant |-> None, clientid |-> None,
     clientsecret |-> None]

\* Verbosity of the log and tracing macros, most severe first.
LevelRank(l) ==
    CASE l = "error" -> 1
      [] l = "warn" -> 2
      [] l = "info" -> 3
      [] l = "debug" -> 4
      [] l = "trace" -> 5

\* The maximum level EnvFilter::from_default_env() lets through: "error"
\* when RUST_LOG is unset, else what RUST_LOG names.
Filters == {"error", "info", "debug"}

VARIABLES
    pc,            \* position of main
    env,           \* TABLE_LOCATION in the process environment (Option<OsString>)
    filter,        \* maximum level the subscriber emits
    flags,         \* the parsed Flags
    log,           \* records emitted so far
    location,      \* what table_location returned
    options,       \* what storage_options returned
    calls,         \* table_location / storage_options / convert, in call order
    convertArgs,   \* the arguments of every invocation of oxbow::convert
    convertResult, \* "NotCalled", "Running", "Ok" or "Err"
    exitStatus     \* <<>> while the process runs, <<code>> once it has ended

vars ==
    <<pc, env, filter, flags, log, location, options, calls, convertArgs,
      convertResult, exitStatus>>

ExitSuccess == 0
ExitFailure == 1
ExitUsage == 2
ExitPanic == 101

NoOptions == [kind |-> "None", map |-> {}]
SomeOptions(m) == [kind |-> "Some", map |-> m]
OptionsUncalled == [kind |-> "Uncalled", map |-> {}]

\* HashMap::insert on a map held as a set of <<key, value>> pairs.
Insert(m, k, v) == {e \in m : e[1] # k} \cup {<<k, v>>}

\* A record passes the subscriber only if its level is enabled.
Emit(l, level, msg, args) ==
    IF LevelRank(level) <= LevelRank(filter)
    THEN Append(l, [level |-> level, msg |-> msg, args |-> args])
    ELSE l

\* {:?} of Flags (derive(Debug)): every field, in declaration order.
DebugFlagsArgs(f) ==
    << [name |-> "help", value |-> Bool(f.help)],
       [name |-> "table", value |-> f.table],
       [name |-> "tenant", value |-> f.tenant],
       [name |-> "clientid", value |-> f.clientid],
       [name |-> "clientsecret", value |-> f.clientsecret] >>


\* std::env::var whose unset case yields the empty string (unwrap_or_default).
env_var_default(e) ==
    IF e.kind = "None" THEN Ok(<<>>)
    ELSE IF IsUtf8(e.val) THEN Ok(e.val)
    ELSE Err("NotUnicode")

\* std::env::var that treats a variable set to the empty string as unset.
env_var_emptyIsUnset(e) ==
    IF e.kind = "None" \/ e.val = <<>> THEN Err("NotPresent")
    ELSE IF IsUtf8(e.val) THEN Ok(e.val)
    ELSE Err("NotUnicode")

\* std::env::var("TABLE_LOCATION"): VarError::NotPresent when the variable
\* is unset, VarError::NotUnicode when its value is not valid UTF-8, else
\* the value as a String.
env_var(e) ==
    IF e.kind = "None" THEN Err("NotPresent")
    ELSE IF IsUtf8(e.val) THEN Ok(e.val)
    ELSE Err("NotUnicode")

\* table_location that lets the environment override the flag.
table_location_envFirst(f, e) ==
    IF env_var(e).kind = "Ok" THEN env_var(e)
    ELSE IF f.table.kind = "None" THEN env_var(e)
    ELSE Ok(f.table.val)

\* table_location that takes an empty --table for an absent one.
table_location_skipEmpty(f, e) ==
    IF f.table.kind = "None" \/ f.table.val = <<>> THEN env_var(e)
    ELSE Ok(f.table.val)

\* fn table_location(flags: &Flags) -> Result<String, anyhow::Error>
table_location(f, e) ==
    IF f.table.kind = "None" THEN env_var(e)
    ELSE Ok(f.table.val)

\* storage_options that passes on whichever credentials are present.
storage_options_partial(f) ==
    IF f.clientid.kind = "None" /\ f.clientsecret.kind = "None"
       /\ f.tenant.kind = "None"
    THEN NoOptions
    ELSE SomeOptions(
           {e \in {<<"azure_tenant_id", f.tenant>>,
                   <<"azure_client_id", f.clientid>>,
                   <<"azure_client_secret", f.clientsecret>>} :
              e[2].kind # "None"})

\* fn storage_options(flags: &Flags) -> Option<HashMap<String, String>>
\* The values inserted are the fields themselves, which are Option<String>.
storage_options(f) ==
    IF f.clientid.kind = "None" \/ f.clientsecret.kind = "None"
       \/ f.tenant.kind = "None"
    THEN NoOptions
    ELSE SomeOptions(
           Insert(Insert(Insert({}, "azure_tenant_id", f.tenant),
                         "azure_client_id", f.clientid),
                  "azure_client_secret", f.clientsecret))

Init ==
    /\ pc = "start"
    /\ env \in OptionOsString(MaxLen)
    /\ filter \in Filters
    /\ flags = NoFlags
    /\ log = <<>>
    /\ location = Uncalled
    /\ options = OptionsUncalled
    /\ calls = <<>>
    /\ convertArgs = <<>>
    /\ convertResult = "NotCalled"
    /\ exitStatus = <<>>

\* tracing_subscriber::fmt()...init(); info!("Starting oxbow");
StartLog ==
    /\ pc = "start"
    /\ log' = Emit(log, "info", "Starting oxbow", <<>>)
    /\ pc' = "parse"
    /\ UNCHANGED <<env, filter, flags, location, options, calls, convertArgs,
                   convertResult, exitStatus>>

\* Flags::parse_args_default_or_exit(), the arguments parse and ask no help.
ParseArgsOk ==
    /\ pc = "parse"
    /\ \E f \in Flags :
         /\ f.help = FALSE
         /\ flags' = f
    /\ pc' = "debug"
    /\ UNCHANGED <<env, filter, log, location, options, calls, convertArgs,
                   convertResult, exitStatus>>

\* Flags::parse_args_default_or_exit(), --help: usage is printed, exit(0).
ParseArgsHelp ==
    /\ pc = "parse"
    /\ pc' = "exited"
    /\ exitStatus' = <<ExitSuccess>>
    /\ UNCHANGED <<env, filter, flags, log, location, options, calls,
                   convertArgs, convertResult>>

\* Flags::parse_args_default_or_exit(), the arguments do not parse: exit(2).
ParseArgsError ==
    /\ pc = "parse"
    /\ pc' = "exited"
    /\ exitStatus' = <<ExitUsage>>
    /\ UNCHANGED <<env, filter, flags, log, location, options, calls,
                   convertArgs, convertResult>>

\* debug!("Options as read: {:?}", flags);
DebugFlags ==
    /\ pc = "debug"
    /\ log' = Emit(log, "debug", "Options as read", DebugFlagsArgs(flags))
    /\ pc' = "table_location"
    /\ UNCHANGED <<env, filter, flags, location, options, calls, convertArgs,
                   convertResult, exitStatus>>

\* table_location whose failure is replaced by a default location.
CallTableLocation_orDefault ==
    /\ pc = "table_location"
    /\ calls' = Append(calls, "table_location")
    /\ location' = table_location(flags, env)
    /\ pc' = "info_location"
    /\ UNCHANGED <<env, filter, flags, log, options, convertArgs,
                   convertResult, exitStatus>>

\* let location = table_location(&flags)?;
\* On Err main returns the error and the process ends with status 1.
CallTableLocation ==
    /\ pc = "table_location"
    /\ calls' = Append(calls, "table_location")
    /\ location' = table_location(flags, env)
    /\ IF location'.kind = "Ok"
       THEN /\ pc' = "info_location"
            /\ UNCHANGED exitStatus
       ELSE /\ pc' = "returned"
            /\ exitStatus' = <<ExitFailure>>
    /\ UNCHANGED <<env, filter, flags, log, options, convertArgs,
                   convertResult>>

\* info!("Using the table location of: {:?}", location);
InfoLocation ==
    /\ pc = "info_location"
    /\ log' = Emit(log, "info", "Using the table location of",
                   << [name |-> "location", value |-> Str(location.val)] >>)
    /\ pc' = "storage_options"
    /\ UNCHANGED <<env, filter, flags, location, options, calls, convertArgs,
                   convertResult, exitStatus>>

\* let options = storage_options(&flags);
CallStorageOptions ==
    /\ pc = "storage_options"
    /\ calls' = Append(calls, "storage_options")
    /\ options' = storage_options(flags)
    /\ pc' = "convert"
    /\ UNCHANGED <<env, filter, flags, log, location, convertArgs,
                   convertResult, exitStatus>>

\* convert that is started without the storage options.
CallConvert_noOptions ==
    /\ pc = "convert"
    /\ calls' = Append(calls, "convert")
    /\ convertArgs' =
         Append(convertArgs, [location |-> location.val, options |-> NoOptions])
    /\ convertResult' = "Running"
    /\ pc' = "await"
    /\ UNCHANGED <<env, filter, flags, log, location, options, exitStatus>>

\* oxbow::convert(&location, options)
CallConvert ==
    /\ pc = "convert"
    /\ calls' = Append(calls, "convert")
    /\ convertArgs' =
         Append(convertArgs, [location |-> location.val, options |-> options])
    /\ convertResult' = "Running"
    /\ pc' = "await"
    /\ UNCHANGED <<env, filter, flags, log, location, options, exitStatus>>

\* .await: the conversion completes, with success or with failure.
AwaitConvert ==
    /\ pc = "await"
    /\ \E r \in {"Ok", "Err"} : convertResult' = r
    /\ pc' = "expect"
    /\ UNCHANGED <<env, filter, flags, log, location, options, calls,
                   convertArgs, exitStatus>>

\* A failure of convert that is dropped (.ok()) instead of unwrapped.
ExpectPanics_ignored ==
    /\ pc = "expect"
    /\ convertResult = "Err"
    /\ pc' = "returned"
    /\ exitStatus' = <<ExitSuccess>>
    /\ UNCHANGED <<env, filter, flags, log, location, options, calls,
                   convertArgs, convertResult>>

\* .expect("Failed to convert location") on Err: main panics, status 101.
ExpectPanics ==
    /\ pc = "expect"
    /\ convertResult = "Err"
    /\ pc' = "panicked"
    /\ exitStatus' = <<ExitPanic>>
    /\ UNCHANGED <<env, filter, flags, log, location, options, calls,
                   convertArgs, convertResult>>

\* .expect(...) on Ok, then Ok(()): main returns, status 0.
ReturnOk ==
    /\ pc = "expect"
    /\ convertResult = "Ok"
    /\ pc' = "returned"
    /\ exitStatus' = <<ExitSuccess>>
    /\ UNCHANGED <<env, filter, flags, log, location, options, calls,
                   convertArgs, convertResult>>

Next ==
    \/ StartLog
    \/ ParseArgsOk
    \/ ParseArgsHelp
    \/ ParseArgsError
    \/ DebugFlags
    \/ CallTableLocation
    \/ InfoLocation
    \/ CallStorageOptions
    \/ CallConvert
    \/ AwaitConvert
    \/ ExpectPanics
    \/ ReturnOk

Spec == Init /\ [][Next]_vars

Terminated == pc \in {"exited", "returned", "panicked"}


LocationCalled == location.kind # "Uncalled"
OptionsCalled == options.kind # "Uncalled"

\* The string table_location reads: --table when given, else TABLE_LOCATION.
LocationSource == IF flags.table.kind = "Some" THEN flags.table ELSE env

\* C1: when the table flag is present and non-empty, table_location returns
\* exactly that string, whether TABLE_LOCATION is unset, empty, set to some
\* other value or set to bytes that are no string.
C1_ExplicitTableWins ==
    (LocationCalled /\ flags.table.kind = "Some" /\ flags.table.val # <<>>)
        => location = Ok(flags.table.val)

\* C1 happens: a non-empty flag was returned although TABLE_LOCATION is set
\* to a different, valid value.
C1_Witness ==
    /\ LocationCalled
    /\ flags.table.kind = "Some" /\ flags.table.val # <<>>
    /\ env.kind = "Some" /\ IsUtf8(env.val) /\ env.val # flags.table.val
    /\ location = Ok(flags.table.val)

\* C2 as stated: when the table flag is absent and TABLE_LOCATION is set to
\* a value V, table_location succeeds and returns V.
C2_EnvSetReturned ==
    (LocationCalled /\ flags.table.kind = "None" /\ env.kind = "Some")
        => location = Ok(env.val)

\* C2 amended: when the table flag is absent and TABLE_LOCATION is set to a
\* value V that is valid Unicode, table_location succeeds and returns V.
C2_EnvUnicodeReturned ==
    (LocationCalled /\ flags.table.kind = "None" /\ env.kind = "Some"
       /\ IsUtf8(env.val))
        => location = Ok(env.val)

\* C2 happens: the flag is absent and a non-empty value of TABLE_LOCATION
\* was returned.
C2_Witness ==
    /\ LocationCalled
    /\ flags.table.kind = "None"
    /\ env.kind = "Some" /\ env.val # <<>>
    /\ location = Ok(env.val)

C4_AllOrNothing ==
    (OptionsCalled
       /\ (flags.tenant.kind = "None" \/ flags.clientid.kind = "None"
           \/ flags.clientsecret.kind = "None"))
        => options = NoOptions

\* C4 happens: storage_options was called with two of the three present.
C4_Witness ==
    /\ OptionsCalled
    /\ flags.tenant.kind = "Some" /\ flags.clientid.kind = "Some"
    /\ flags.clientsecret.kind = "None"
    /\ options.kind = "None"

\* C5: when tenant, clientid and clientsecret are all present with values
\* (T, C, S), storage_options returns the mapping azure_tenant_id -> T,
\* azure_client_id -> C, azure_client_secret -> S of plain strings, with no
\* other entry.
C5_PlainStringMapping ==
    (OptionsCalled /\ flags.tenant.kind = "Some"
       /\ flags.clientid.kind = "Some" /\ flags.clientsecret.kind = "Some")
        => options =
             SomeOptions({<<"azure_tenant_id", Str(flags.tenant.val)>>,
                          <<"azure_client_id", Str(flags.clientid.val)>>,
                          <<"azure_client_secret", Str(flags.clientsecret.val)>>})

\* C6: table_location is called before storage_options and before convert,
\* and when it fails the process ends with a non-zero status and neither
\* storage_options nor convert is ever called.
C6_FailFastOnLocation ==
    /\ \A i \in 1..Len(calls) :
         calls[i] \in {"storage_options", "convert"}
             => \E j \in 1..(i - 1) : calls[j] = "table_location"
    /\ (LocationCalled /\ location.kind # "Ok")
         => /\ Terminated
            /\ exitStatus # <<>> /\ exitStatus # <<ExitSuccess>>
            /\ calls = <<"table_location">>
            /\ ~OptionsCalled
            /\ convertArgs = <<>> /\ convertResult = "NotCalled"

\* C6 happens: table_location failed and the process has ended.
C6_Witness ==
    /\ LocationCalled /\ location.kind # "Ok"
    /\ Terminated
    /\ exitStatus = <<ExitFailure>>

\* C7: when table_location succeeds, convert is invoked exactly once, with
\* the location table_location returned and the value storage_options
\* returned (None for incomplete credentials, which does not stop the run),
\* and main does not end before convert has completed.
C7_ConvertOnceWithBoth ==
    /\ Len(convertArgs) <= 1
    /\ Len(convertArgs) = 1
         => /\ location.kind = "Ok" /\ OptionsCalled
            /\ convertArgs[1] =
                 [location |-> location.val, options |-> storage_options(flags)]
            /\ convertArgs[1].options = options
            /\ calls = <<"table_location", "storage_options", "convert">>
    /\ (location.kind = "Ok" /\ Terminated)
         => /\ Len(convertArgs) = 1
            /\ convertResult \in {"Ok", "Err"}

\* C7 happens: a run with incomplete credentials ended after convert, which
\* was given the location and None, completed.
C7_Witness ==
    /\ Terminated /\ location.kind = "Ok"
    /\ flags.tenant.kind = "Some" /\ flags.clientsecret.kind = "None"
    /\ Len(convertArgs) = 1 /\ convertArgs[1].options = NoOptions
    /\ convertResult = "Ok"

\* C8: when convert reports failure the process ends with a non-zero
\* status and convert is not invoked again; main returns success only when
\* convert returned success.
C8_ConvertFailurePropagates ==
    /\ (convertResult = "Err" /\ Terminated)
         => /\ exitStatus # <<>> /\ exitStatus # <<ExitSuccess>>
            /\ Len(convertArgs) = 1
    /\ (convertResult = "Err" /\ ~Terminated) => pc = "expect"
    /\ (pc = "returned" /\ exitStatus = <<ExitSuccess>>)
         => convertResult = "Ok"

\* C8 happens: convert failed and the process has ended by the panic.
C8_Witness ==
    /\ convertResult = "Err"
    /\ pc = "panicked" /\ exitStatus = <<ExitPanic>>

\* A log record that prints the clientsecret that was given.
HasSecret(r) ==
    \E i \in 1..Len(r.args) :
        /\ r.args[i].name = "clientsecret"
        /\ r.args[i].value.kind = "Some"

\* C9: no log record the program emits, at any level, contains the value of
\* clientsecret.
C9_SecretNeverLogged ==
    \A i \in 1..Len(log) : ~HasSecret(log[i])

\* C10 as stated: whenever table_location succeeds the location is a
\* non-empty string, and convert is never invoked with an empty location.
C10_LocationNonEmpty ==
    /\ location.kind = "Ok" => location.val # <<>>
    /\ \A i \in 1..Len(convertArgs) : convertArgs[i].location # <<>>

\* C10 amended: whenever table_location succeeds the location is the string
\* of its source (the table flag when given, else TABLE_LOCATION) unchanged,
\* so it is empty exactly when that string is empty, and convert is invoked
\* with that same location.
C10_LocationIsSource ==
    /\ location.kind = "Ok"
         => /\ LocationSource.kind = "Some"
            /\ location.val = LocationSource.val
            /\ (location.val = <<>>) <=> (LocationSource.val = <<>>)
    /\ \A i \in 1..Len(convertArgs) :
         convertArgs[i].location = LocationSource.val

\* C10 happens: an empty --table, with TABLE_LOCATION set to something else,
\* reached convert as the empty location.
C10_Witness ==
    /\ flags.table = Some(<<>>)
    /\ env.kind = "Some" /\ env.val # <<>>
    /\ location = Ok(<<>>)
    /\ Len(convertArgs) = 1 /\ convertArgs[1].location = <<>>

====
